---- MODULE Spec2Model ----
(***************************************************************************)
(* The position/hierarchy engine of the todo-list server                   *)
(* (src/unnamed/part_000, the server's db module) together with the        *)
(* shallow validation of the bulk-reposition route (src/server/routes.js). *)
(*                                                                         *)
(* The store is the SQLite database: the todos table, the lists table and  *)
(* the settings row.  Every engine function runs inside one better-sqlite3 *)
(* transaction, so one call is one step of the model.  The content columns *)
(* (text, completed, is_empty) are read by no structural rule and are left *)
(* out of the rows.                                                        *)
(***************************************************************************)
EXTENDS Integers, Sequences, FiniteSets, TLC

VARIABLES todos, lists, current_list_id, last, inflight, txn, log,
          uiTodos, drag, pending, sent

vars == <<todos, lists, current_list_id, last, inflight, txn, log,
          uiTodos, drag, pending, sent>>

\* ---------------------------------------------------------------- bounds
MaxId == 3
MaxLists == 2
MaxPos == 2
MaxBatch == 2
MaxFault == 3
MaxClients == 2
MaxLog == 3
MaxUiItems == 3
MaxDrags == 2

\* ------------------------------------------------------------- constants
\* SQL NULL / JS null for an id-valued column or argument (row ids start at 1)
Null == 0
\* a key that a patch does not have (hasOwnProperty is false)
Absent == 0 - 1

\* A patch without the key text: no text the model uses
NoText == "(no text)"

TodoIds == 1..MaxId
ListIds == 1..MaxLists

SetMax(S) == CHOOSE m \in S : \A x \in S : x <= m

\* INTEGER PRIMARY KEY without AUTOINCREMENT: the new rowid is max(rowid)+1
NextRowid(S) == IF S = {} THEN 1 ELSE SetMax(S) + 1

\* The store as one value, as a transaction sees it
Store(t, l, c) == [todos |-> t, lists |-> l, cur |-> c]

db == Store(todos, lists, current_list_id)

NoRes == [id |-> Null, listId |-> Null, count |-> 0, cascaded |-> FALSE,
          deletedIds |-> <<>>, liftedIds |-> <<>>]

\* A call that throws before its first write
Throw(e) == [ok |-> FALSE, err |-> e, stages |-> <<>>, res |-> NoRes]

\* A call that ran to its return statement; stages are the stores after each
\* of its write steps, the last one being the store it commits
Return(stages, res) == [ok |-> TRUE, err |-> "", stages |-> stages, res |-> res]

\* -------------------------------------------------- referential actions
\* DELETE FROM todos of the rows ids: parent_id REFERENCES todos(id)
\* ON DELETE SET NULL acts on the rows that stay
DeleteTodoRows(t, ids) ==
  [i \in (DOMAIN t) \ ids |->
     IF t[i].parentId \in ids THEN [t[i] EXCEPT !.parentId = Null] ELSE t[i]]

\* Faulty variant of DeleteListRow: the items of the list are not deleted
DeleteListRowNoCascade(s, lid) ==
  Store(s.todos, s.lists \ {lid}, IF s.cur = lid THEN Null ELSE s.cur)

\* DELETE FROM lists: todos.list_id ON DELETE CASCADE and
\* settings.current_list_id ON DELETE SET NULL
DeleteListRow(s, lid) ==
  LET gone == {i \in DOMAIN s.todos : s.todos[i].listId = lid}
  IN  Store(DeleteTodoRows(s.todos, gone), s.lists \ {lid},
            IF s.cur = lid THEN Null ELSE s.cur)

\* ------------------------------------------------------------ compaction
\* ORDER BY position ASC, id ASC
\* Faulty variant of RowBefore: ORDER BY id alone
RowBeforeByIdOnly(t, i, j) == i < j

\* Faulty variant of RowBefore: rows of equal position in descending id
RowBeforeIdDescending(t, i, j) ==
  \/ t[i].position < t[j].position
  \/ t[i].position = t[j].position /\ i > j

RowBefore(t, i, j) ==
  \/ t[i].position < t[j].position
  \/ t[i].position = t[j].position /\ i < j

RECURSIVE SortRows(_, _)
SortRows(t, S) ==
  IF S = {} THEN <<>>
  ELSE LET m == CHOOSE i \in S : \A j \in S \ {i} : RowBefore(t, i, j)
       IN  <<m>> \o SortRows(t, S \ {m})

IndexOf(seq, x) == CHOOSE k \in 1..Len(seq) : seq[k] = x

\* Faulty variant of compactPositionsTx: the positions stay as written
compactPositionsTxSkipped(t, listId) == t

\* Faulty variant of compactPositionsTx: WHERE list_id=? is missing, the rows
\* of all lists are renumbered as one
compactPositionsTxAllLists(t, listId) ==
  LET rows == SortRows(t, DOMAIN t)
  IN  [i \in DOMAIN t |-> [t[i] EXCEPT !.position = IndexOf(rows, i)]]

\* The rows of the list renumbered 1..N in the order of (position, id)
compactPositionsTx(t, listId) ==
  LET rows == SortRows(t, {i \in DOMAIN t : t[i].listId = listId})
  IN  [i \in DOMAIN t |->
         IF t[i].listId = listId
         THEN [t[i] EXCEPT !.position = IndexOf(rows, i)]
         ELSE t[i]]

\* ------------------------------------------------------------ deleteTodo
SetToSeq(S) == SortRows([i \in S |-> [position |-> 0]], S)

\* Faulty variant of cteRows: the direct children only
cteRowsDirect(t, frontier) ==
  SetToSeq({i \in DOMAIN t : t[i].parentId \in frontier})

\* WITH RECURSIVE cte: the rows the queue yields after the seed, level by level
RECURSIVE cteRows(_, _)
cteRows(t, frontier) ==
  LET kids == {i \in DOMAIN t : t[i].parentId \in frontier}
  IN  IF kids = {} THEN <<>> ELSE SetToSeq(kids) \o cteRows(t, kids)

SeqRange(seq) == {seq[k] : k \in 1..Len(seq)}

\* Faulty variant of LiftRows: is_indented is left as it was
LiftRowsParentOnly(t, ids) ==
  [i \in DOMAIN t |->
     IF i \in ids THEN [t[i] EXCEPT !.parentId = Null] ELSE t[i]]

LiftRows(t, ids) ==
  [i \in DOMAIN t |->
     IF i \in ids THEN [t[i] EXCEPT !.parentId = Null, !.isIndented = FALSE]
     ELSE t[i]]

deleteTodo(s, tid, cascadeFlag) ==
  IF tid \notin DOMAIN s.todos THEN Throw("Todo not found")
  ELSE
    LET listId == s.todos[tid].listId
        descendants == cteRows(s.todos, {tid})
        res == [NoRes EXCEPT !.listId = listId, !.cascaded = cascadeFlag,
                  !.deletedIds = IF cascadeFlag THEN <<tid>> \o descendants ELSE <<tid>>,
                  !.liftedIds = IF cascadeFlag THEN <<>> ELSE descendants]
    IN  IF cascadeFlag
        THEN LET t1 == DeleteTodoRows(s.todos, {tid} \cup SeqRange(descendants))
                 t2 == compactPositionsTx(t1, listId)
             IN  Return(<<[s EXCEPT !.todos = t1], [s EXCEPT !.todos = t2]>>, res)
        ELSE LET t1 == LiftRows(s.todos, SeqRange(descendants))
                 t2 == DeleteTodoRows(t1, {tid})
                 t3 == compactPositionsTx(t2, listId)
             IN  Return(<<[s EXCEPT !.todos = t1], [s EXCEPT !.todos = t2],
                          [s EXCEPT !.todos = t3]>>, res)

\* ------------------------------------------------------------ createTodo
\* Faulty variant of ParentError: the list of the parent is not compared
ParentErrorAnyList(t, parentId, listId) ==
  IF parentId = Null THEN ""
  ELSE IF parentId \notin DOMAIN t THEN "Parent todo not found"
  ELSE ""

\* Faulty variant of ParentError: the parent is not looked up
ParentErrorUnchecked(t, parentId, listId) == ""

\* Validate parent: it exists and is in the list of the new item
ParentError(t, parentId, listId) ==
  IF parentId = Null THEN ""
  ELSE IF parentId \notin DOMAIN t THEN "Parent todo not found"
  ELSE IF t[parentId].listId # listId THEN "Parent must be in the same list"
  ELSE ""

\* Faulty variant of DefaultPosition: the rows of the list are counted
DefaultPositionByCount(t, listId) ==
  Cardinality({j \in DOMAIN t : t[j].listId = listId}) + 1

\* Determine position if not supplied: COALESCE(MAX(position), 0) + 1
DefaultPosition(t, listId) ==
  LET held == {t[i].position : i \in {j \in DOMAIN t : t[j].listId = listId}}
      maxPos == IF held = {} THEN 0 ELSE SetMax(held)
  IN  maxPos + 1

\* Faulty variant of IndentsFirstItem: the guard is missing
IndentsFirstItemIgnored(parentId, position) == FALSE

\* Disallow indenting the first item: the guard of createTodo
IndentsFirstItem(parentId, position) == parentId # Null /\ position = 1

\* text.trim(): the texts of the model hold no other white space than " "
Trim(text) == IF text = " " THEN "" ELSE text

\* payload.listId 0 stands for a missing or falsy listId, payload.position 0
\* for a missing or non-positive position, payload.isEmpty Absent for a body
\* without isEmpty
createTodo(s, payload) ==
  LET listId == IF payload.listId # 0 THEN payload.listId
                ELSE IF s.cur # Null THEN s.cur ELSE 1
      text == payload.text
      completed == payload.completed
      isEmpty == IF payload.isEmpty = 1 THEN 1
                 ELSE IF Trim(text) = "" THEN 1 ELSE 0
      parentId == payload.parentId
      isIndented == parentId # Null
      position == IF payload.position <= 0 THEN DefaultPosition(s.todos, listId)
                  ELSE payload.position
      id == NextRowid(DOMAIN s.todos)
      row == [text |-> text, completed |-> completed, isEmpty |-> isEmpty,
              parentId |-> parentId, isIndented |-> isIndented,
              position |-> position, listId |-> listId]
  IN  IF ParentError(s.todos, parentId, listId) # ""
        THEN Throw(ParentError(s.todos, parentId, listId))
      ELSE IF IndentsFirstItem(parentId, position)
        THEN Throw("Cannot indent the first item in the list")
      ELSE IF listId \notin s.lists
        THEN Throw("FOREIGN KEY constraint failed")
      ELSE Return(<<[s EXCEPT !.todos =
                       [i \in (DOMAIN s.todos) \cup {id} |->
                          IF i = id THEN row ELSE s.todos[i]]]>>,
                  [NoRes EXCEPT !.id = id, !.listId = listId])

\* ------------------------------------------------------------ updateTodo
\* Faulty variant of AncestorWalkHits: only the parent of the new parent is
\* looked at
AncestorWalkOneStep(t, cur, tid) ==
  cur \in DOMAIN t /\ t[cur].parentId = tid

\* Faulty variant of AncestorWalkHits: the ancestor chain is not walked
AncestorWalkSkipped(t, cur, tid) == FALSE

\* Cycle guard: walk up the ancestor chain of the new parent
RECURSIVE AncestorWalkHits(_, _, _)
AncestorWalkHits(t, cur, tid) ==
  IF cur \notin DOMAIN t THEN FALSE
  ELSE IF t[cur].parentId = Null THEN FALSE
  ELSE IF t[cur].parentId = tid THEN TRUE
  ELSE AncestorWalkHits(t, t[cur].parentId, tid)

\* Faulty variant of SelfParent: the target's own id passes
SelfParentAllowed(targetParentId, tid) == FALSE

\* The new parent is the item itself
SelfParent(targetParentId, tid) == targetParentId = tid

\* Faulty variant of SetClause: a column the patch does not name is written
\* with the column's default
SetClauseUnconditional(named, v, old) ==
  IF named THEN v ELSE IF old \in {0, 1} THEN 0 ELSE old

\* sets.push('column=?') under hasOwnProperty: the value a column has after
\* the UPDATE, v when the patch names it, the stored value otherwise
SetClause(named, v, old) == IF named THEN v ELSE old

\* Faulty variant of allowedIsIndented: the value supplied is stored
allowedIsIndentedAsSupplied(targetParentId, v) == v = 1

\* allowed.isIndented: is_indented mirrors the validated parent, whatever
\* value v the patch carries
allowedIsIndented(targetParentId, v) == targetParentId # Null

\* p.parentId and p.position are Absent when the patch lacks the key and Null
\* when it carries null; p.isIndented is Absent when the patch lacks the key,
\* else the value supplied (0: false, 1: true)
updateTodo(s, tid, p) ==
  IF tid \notin DOMAIN s.todos THEN Throw("Todo not found")
  ELSE
    LET row == s.todos[tid]
        targetParentId == IF p.parentId # Absent THEN p.parentId ELSE row.parentId
        targetPosition == IF p.position # Absent THEN p.position ELSE row.position
        setContent == p.text # NoText \/ p.completed # Absent \/ p.isEmpty # Absent
        setParent == p.parentId # Absent
        setIndent == p.parentId # Absent \/ p.isIndented # Absent
        setPos == p.position # Absent /\ p.position # Null
        res == [NoRes EXCEPT !.id = tid, !.listId = row.listId]
        newRow == [text |-> SetClause(p.text # NoText, p.text, row.text),
                   completed |-> SetClause(p.completed # Absent, p.completed,
                                           row.completed),
                   isEmpty |-> SetClause(p.isEmpty # Absent, p.isEmpty,
                                         row.isEmpty),
                   parentId |-> SetClause(setParent, p.parentId, row.parentId),
                   isIndented |-> IF setIndent
                                  THEN allowedIsIndented(targetParentId, p.isIndented)
                                  ELSE row.isIndented,
                   position |-> SetClause(setPos, p.position, row.position),
                   listId |-> row.listId]
    IN  IF targetParentId # Null /\ SelfParent(targetParentId, tid)
          THEN Throw("Cannot set parent to self")
        ELSE IF targetParentId # Null /\ targetParentId \notin DOMAIN s.todos
          THEN Throw("Parent todo not found")
        ELSE IF targetParentId # Null /\ s.todos[targetParentId].listId # row.listId
          THEN Throw("Parent must be in the same list")
        ELSE IF targetParentId # Null /\ AncestorWalkHits(s.todos, targetParentId, tid)
          THEN Throw("Cannot create cyclic parent relationship")
        ELSE IF targetParentId # Null /\ targetPosition = 1
          THEN Throw("Cannot indent the first item in the list")
        ELSE IF ~(setContent \/ setParent \/ setIndent \/ setPos)
          THEN Return(<<>>, res)
        ELSE Return(<<[s EXCEPT !.todos = [s.todos EXCEPT ![tid] = newRow]]>>, res)

\* --------------------------------------------------- updateTodoPositions
\* The Map proposed: its keys in insertion order and its values
RECURSIVE ProposedKeys(_)
ProposedKeys(rows) ==
  IF rows = <<>> THEN <<>>
  ELSE LET init == ProposedKeys(SubSeq(rows, 1, Len(rows) - 1))
           id == rows[Len(rows)].id
       IN  IF id \in SeqRange(init) THEN init ELSE Append(init, id)

ProposedValue(rows, id) ==
  LET k == CHOOSE k \in 1..Len(rows) :
             rows[k].id = id /\ \A m \in (k + 1)..Len(rows) : rows[m].id # id
  IN  [position |-> rows[k].position, parentId |-> rows[k].parentId]

\* Faulty variant of BuildProposedError: the list of a row's item is not
\* compared with the list of the first row's item
RECURSIVE BuildProposedErrorAnyList(_, _, _)
BuildProposedErrorAnyList(t, listId, rows) ==
  IF rows = <<>> THEN ""
  ELSE LET r == Head(rows)
       IN  IF r.id \notin DOMAIN t THEN "Todo not found"
           ELSE IF r.parentId = r.id THEN "A todo cannot be its own parent"
           ELSE BuildProposedErrorAnyList(t, listId, Tail(rows))

\* First loop: the error of the first row that fails, "" when none does
RECURSIVE BuildProposedError(_, _, _)
BuildProposedError(t, listId, rows) ==
  IF rows = <<>> THEN ""
  ELSE LET r == Head(rows)
       IN  IF r.id \notin DOMAIN t THEN "Todo not found"
           ELSE IF t[r.id].listId # listId THEN "All updates must be within the same list"
           ELSE IF r.parentId = r.id THEN "A todo cannot be its own parent"
           ELSE BuildProposedError(t, listId, Tail(rows))

\* Faulty variant of getParent: the proposed parents are not consulted
getParentStored(t, rows, id) ==
  IF id \in DOMAIN t THEN t[id].parentId ELSE Null

\* getParent: the proposed parent of a batch item, the stored one otherwise
getParent(t, rows, id) ==
  IF id \in SeqRange(ProposedKeys(rows)) THEN ProposedValue(rows, id).parentId
  ELSE IF id \in DOMAIN t THEN t[id].parentId
  ELSE Null

\* Cycle check: follow parents until null or a node seen before
RECURSIVE ParentWalkCycles(_, _, _, _)
ParentWalkCycles(t, rows, seen, cur) ==
  IF cur = Null THEN FALSE
  ELSE IF cur \in seen THEN TRUE
  ELSE ParentWalkCycles(t, rows, seen \cup {cur}, getParent(t, rows, cur))

\* Second loop, over the entries of proposed in insertion order
RECURSIVE ValidateProposedError(_, _, _, _)
ValidateProposedError(t, listId, rows, keys) ==
  IF keys = <<>> THEN ""
  ELSE LET id == Head(keys)
           pid == ProposedValue(rows, id).parentId
       IN  IF pid = Null THEN ValidateProposedError(t, listId, rows, Tail(keys))
           ELSE IF pid \notin DOMAIN t THEN "Parent not found"
           ELSE IF t[pid].listId # listId THEN "Parent must be in the same list"
           ELSE IF ParentWalkCycles(t, rows, {id}, pid) THEN "Parent cycle detected"
           ELSE ValidateProposedError(t, listId, rows, Tail(keys))

\* Faulty variant of ApplyProposed: is_indented is not written
ApplyProposedKeepIndent(t, rows) ==
  [i \in DOMAIN t |->
     IF i \in SeqRange(ProposedKeys(rows))
     THEN LET v == ProposedValue(rows, i)
          IN  [t[i] EXCEPT !.position = v.position, !.parentId = v.parentId]
     ELSE t[i]]

\* The UPDATE of every proposed entry
ApplyProposed(t, rows) ==
  [i \in DOMAIN t |->
     IF i \in SeqRange(ProposedKeys(rows))
     THEN LET v == ProposedValue(rows, i)
          IN  [t[i] EXCEPT !.position = v.position, !.parentId = v.parentId,
                           !.isIndented = (v.parentId # Null)]
     ELSE t[i]]

updateTodoPositions(s, rows) ==
  IF rows[1].id \notin DOMAIN s.todos THEN Throw("First todo not found")
  ELSE
    LET listId == s.todos[rows[1].id].listId
        e1 == BuildProposedError(s.todos, listId, rows)
        e2 == ValidateProposedError(s.todos, listId, rows, ProposedKeys(rows))
        t1 == ApplyProposed(s.todos, rows)
        t2 == compactPositionsTx(t1, listId)
    IN  IF e1 # "" THEN Throw(e1)
        ELSE IF e2 # "" THEN Throw(e2)
        ELSE Return(<<[s EXCEPT !.todos = t1], [s EXCEPT !.todos = t2]>>,
                    [NoRes EXCEPT !.count = Len(rows), !.listId = listId])

\* PATCH /api/todos/positions: the shallow validation of the body, made
\* before the engine is called; "" when the body passes
\* Faulty variant of PositionsBodyLoop: the positions are not compared
RECURSIVE PositionsBodyLoopIdsOnly(_, _, _)
PositionsBodyLoopIdsOnly(body, ids, positions) ==
  IF body = <<>> THEN ""
  ELSE LET row == Head(body)
       IN  IF row.id \in ids THEN "Duplicate id in payload"
           ELSE PositionsBodyLoopIdsOnly(Tail(body), ids \cup {row.id}, positions)

RECURSIVE PositionsBodyLoop(_, _, _)
PositionsBodyLoop(body, ids, positions) ==
  IF body = <<>> THEN ""
  ELSE LET row == Head(body)
       IN  IF row.id \in ids THEN "Duplicate id in payload"
           ELSE IF row.position \in positions THEN "Duplicate position in payload"
           ELSE PositionsBodyLoop(Tail(body), ids \cup {row.id},
                                  positions \cup {row.position})

PositionsBodyError(body) ==
  LET e == PositionsBodyLoop(body, {}, {})
      tops == {k \in 1..Len(body) : body[k].position = 1}
  IN  IF e # "" THEN e
      ELSE IF tops # {} /\ body[CHOOSE k \in tops : \A m \in tops : k <= m].parentId # Null
        THEN "Cannot indent the first item in the list"
      ELSE ""

\* ----------------------------------------------------------------- lists
\* Faulty variant of setCurrentList: the list is not looked up
setCurrentListUnchecked(s, lid) ==
  Return(<<[s EXCEPT !.cur = lid]>>, [NoRes EXCEPT !.listId = lid])

setCurrentList(s, lid) ==
  IF lid \notin s.lists THEN Throw("List not found")
  ELSE Return(<<[s EXCEPT !.cur = lid]>>, [NoRes EXCEPT !.listId = lid])

\* Faulty variant of createList: settings keeps its current list
createListKeepsCurrent(s) ==
  LET id == NextRowid(s.lists)
  IN  Return(<<[s EXCEPT !.lists = s.lists \cup {id}]>>,
             [NoRes EXCEPT !.listId = id])

createList(s) ==
  LET id == NextRowid(s.lists)
      s1 == [s EXCEPT !.lists = s.lists \cup {id}]
  IN  Return(<<s1, [s1 EXCEPT !.cur = id]>>, [NoRes EXCEPT !.listId = id])

deleteList(s, lid) ==
  IF lid \notin s.lists THEN Throw("List not found")
  ELSE
    LET s1 == DeleteListRow(s, lid)
        any == IF s1.lists = {} THEN Null
               ELSE CHOOSE l \in s1.lists : \A m \in s1.lists : l <= m
    IN  IF s1.cur = lid
        THEN Return(<<s1, [s1 EXCEPT !.cur = any]>>, [NoRes EXCEPT !.listId = lid])
        ELSE Return(<<s1>>, [NoRes EXCEPT !.listId = lid])

\* ---------------------------------------------------------- transactions
\* The store failing with error e at write step f of a call (f = 0: it does
\* not fail): the call throws with the writes of the steps before f made
StoreFault(s, r, f, e) ==
  IF ~r.ok \/ f = 0 \/ f > Len(r.stages) THEN r
  ELSE [ok |-> FALSE,
        err |-> e,
        stages |-> SubSeq(r.stages, 1, f - 1),
        res |-> NoRes]

\* The store a call leaves inside its transaction
Written(s, r) == IF r.stages = <<>> THEN s ELSE r.stages[Len(r.stages)]

\* Faulty variant of withTxn: the writes of a call that throws are kept
withTxnNoRollback(s, r) == Written(s, r)

\* d.transaction(fn): commit when fn returns, roll back when it throws
withTxn(s, r) == IF r.ok THEN Written(s, r) ELSE s

\* ------------------------------------------------------------ the inputs
\* Bodies of POST /api/todos as the route hands them on: a body without
\* text, completed and isEmpty
CreatePayloads ==
  [listId : 0..MaxLists, parentId : {Null} \cup TodoIds, position : 0..MaxPos,
   isIndented : {0, 1}, text : {""}, completed : {0}, isEmpty : {Absent}]

\* Bodies of PATCH /api/todos/:id that name none of text, completed, isEmpty
Patches ==
  [parentId : {Absent, Null} \cup TodoIds,
   position : {Absent, Null} \cup (1..MaxPos),
   isIndented : {Absent, 0, 1},
   text : {NoText}, completed : {Absent}, isEmpty : {Absent}]

Entries == [id : TodoIds, position : 1..MaxPos, parentId : {Null} \cup TodoIds]

RECURSIVE SeqsUpTo(_, _)
SeqsUpTo(S, n) ==
  IF n = 0 THEN {<<>>}
  ELSE LET shorter == SeqsUpTo(S, n - 1)
       IN  shorter \cup {Append(q, x) : q \in {r \in shorter : Len(r) = n - 1}, x \in S}

Batches == SeqsUpTo(Entries, MaxBatch) \ {<<>>}

Faults == 0..MaxFault

\* What the store fails with: lock contention, or anything else
StoreErrors == {"SQLITE_BUSY", "SQLITE_IOERR"}

\* ------------------------------------------------------------ the routes
\* The errors whose code or message passes each test of classifyDbError
ConstraintErrors == {"FOREIGN KEY constraint failed"}

BusyErrors == {"SQLITE_BUSY"}

\* Faulty variant of NotFoundErrors: no message passes the test
NotFoundErrorsMissed == {}

NotFoundErrors ==
  {"Todo not found", "First todo not found", "Parent todo not found",
   "Parent not found", "List not found"}

\* classifyDbError: the HTTP status of an error thrown by the engine
classifyDbError(e) ==
  IF e \in ConstraintErrors THEN 409
  ELSE IF e \in BusyErrors THEN 503
  ELSE IF e \in NotFoundErrors THEN 404
  ELSE 500

\* withRetries' defaults
attempts == 3

baseDelay == 50

\* A request: the engine function a route calls, the id of the URL and the
\* argument made from the body or the query
Request(op, id, arg) == [op |-> op, id |-> id, arg |-> arg]

\* fn(): the engine call a route hands to withRetries
Engine(s, req) ==
  CASE req.op = "createTodo" -> createTodo(s, req.arg)
    [] req.op = "updateTodo" -> updateTodo(s, req.id, req.arg)
    [] req.op = "updateTodoPositions" -> updateTodoPositions(s, req.arg)
    [] req.op = "deleteTodo" -> deleteTodo(s, req.id, req.arg)
    [] req.op = "createList" -> createList(s)
    [] req.op = "deleteList" -> deleteList(s, req.id)
    [] req.op = "setCurrentList" -> setCurrentList(s, req.id)

\* The ways one invocation of fn() can end on store s, r being what the
\* engine function computes there
Attempt(s, r) ==
  IF ~r.ok THEN {r}
  ELSE {StoreFault(s, r, f, e) :
          f \in {g \in Faults : g <= Len(r.stages)}, e \in StoreErrors}

\* A request once its route has its answer: the store it leaves, the reply,
\* the status of each invocation of fn() in order and the sleeps between them
Ended(s, o, tries, delays) ==
  LET status == IF o.ok THEN 200 ELSE classifyDbError(o.err)
  IN  [s |-> withTxn(s, o), ok |-> o.ok, err |-> o.err, res |-> o.res,
       status |-> status, tries |-> Append(tries, status), delays |-> delays]

\* Faulty variant of ShouldRetry: every failure is retried
ShouldRetryAnyFailure(status, i) == i < attempts - 1

\* The catch of withRetries: sleep and invoke fn() again
ShouldRetry(status, i) == status = 503 /\ i < attempts - 1

\* The sleep before invocation i + 1
RetryDelay(i) == baseDelay * 2^i

\* The loop of withRetries from iteration i on, r being what fn() computes on
\* store s: every way the loop can end.  fn() reads the store anew at each
\* invocation; on a store equal to s it computes r again.
RECURSIVE RetryLoop(_, _, _, _, _, _)
RetryLoop(s, req, r, i, tries, delays) ==
  LET outs == Attempt(s, r)
      again == {o \in outs : ~o.ok /\ ShouldRetry(classifyDbError(o.err), i)}
      next == {<<withTxn(s, o), classifyDbError(o.err)>> : o \in again}
  IN  {Ended(s, o, tries, delays) : o \in outs \ again}
      \cup UNION {RetryLoop(n[1], req, IF n[1] = s THEN r ELSE Engine(n[1], req),
                            i + 1, Append(tries, n[2]),
                            Append(delays, RetryDelay(i))) : n \in next}

\* withRetries(fn): the replies a request can get
withRetries(s, req) == RetryLoop(s, req, Engine(s, req), 0, <<>>, <<>>)

\* A body the route answers itself, without calling the engine
Rejected(s, e) ==
  [s |-> s, ok |-> FALSE, err |-> e, res |-> NoRes,
   status |-> 400, tries |-> <<>>, delays |-> <<>>]

\* PATCH /api/todos/positions: the body is validated, then handed to the engine
PatchPositions(s, body) ==
  LET e == PositionsBodyError(body)
  IN  IF e # "" THEN {Rejected(s, e)}
      ELSE withRetries(s, Request("updateTodoPositions", Null, body))

\* PATCH /api/settings/current-list: the engine is called once, unwrapped
PatchCurrentList(s, lid) ==
  {Ended(s, o, <<>>, <<>>) : o \in Attempt(s, setCurrentList(s, lid))}

\* -------------------------------------------------------------- the steps
\* The body of a request that is not POST /api/todos
NoPatch ==
  [parentId |-> Absent, position |-> Absent, isIndented |-> Absent,
   text |-> NoText, completed |-> Absent, isEmpty |-> Absent]

NoPayload ==
  [listId |-> 0, parentId |-> Null, position |-> 0, isIndented |-> Absent,
   text |-> "", completed |-> 0, isEmpty |-> Absent]

\* ---------------------------------------------------- requests in flight
Clients == 1..MaxClients

\* A handler between its awaits: pc is "ready" before the engine is called,
\* "sleeping" inside the sleep of withRetries, "replying" once a GET has its
\* rows; i is the iteration of withRetries, seen the rows a GET has read
InFlight(pc, op, id, payload, patch, body, cascade, i, seen) ==
  [pc |-> pc, op |-> op, id |-> id, payload |-> payload, patch |-> patch,
   body |-> body, cascade |-> cascade, i |-> i, seen |-> seen]

NoRequest ==
  InFlight("none", "idle", Null, NoPayload, NoPatch, <<>>, FALSE, 0, <<>>)

\* The engine call of a request in flight
AsRequest(q) ==
  Request(q.op, q.id,
          CASE q.op = "createTodo" -> q.payload
            [] q.op = "updateTodo" -> q.patch
            [] q.op = "updateTodoPositions" -> q.body
            [] q.op = "deleteTodo" -> q.cascade
            [] OTHER -> Null)

\* The transaction d.transaction has open: the handler that called it, the
\* store ROLLBACK restores, the way the call ends (o) and the writes of o
\* already made
Txn(owner, snapshot, o, k) ==
  [owner |-> owner, snapshot |-> snapshot, o |-> o, k |-> k]

NoTxn == Txn(0, Store(<<>>, {}, Null), Throw(""), 0)

\* What the route handler holds when it sends its reply: op and id are the
\* function called and the id it was called with, payload the body of a
\* POST /api/todos
Outcome(op, id, payload, run) ==
  [op |-> op, id |-> id, payload |-> payload,
   ok |-> run.ok, err |-> run.err, res |-> run.res,
   status |-> run.status, tries |-> run.tries, delays |-> run.delays]

\* No request is being handled
Idle ==
  [op |-> "idle", id |-> Null, payload |-> NoPayload,
   ok |-> TRUE, err |-> "", res |-> NoRes,
   status |-> 0, tries |-> <<>>, delays |-> <<>>]

\* One request handled: the store its transactions leave and the reply
Call(op, id, payload, run) ==
  /\ todos' = run.s.todos
  /\ lists' = run.s.lists
  /\ current_list_id' = run.s.cur
  /\ last' = Outcome(op, id, payload, run)
  /\ UNCHANGED <<inflight, txn, log, uiTodos, drag, pending, sent>>

\* The drag refs of App before any drag: indexes count from 1, 0 is null
NoDrag ==
  [isDragging |-> FALSE, draggedIndex |-> 0, targetIndex |-> 0,
   dragDirection |-> "none", dragOffsetX |-> 0,
   dragSessionId |-> 0, dropSessionId |-> 0, cleanupTimer |-> 0]

\* getDb() on a fresh database file: one list, which is the current one
InitServer ==
  /\ todos = <<>>
  /\ lists = {1}
  /\ current_list_id = 1
  /\ last = Idle
  /\ inflight = [c \in Clients |-> NoRequest]
  /\ txn = NoTxn
  /\ log = <<>>

\* The server started, and App mounted with useState([]) and fresh refs
Init ==
  /\ InitServer
  /\ uiTodos = <<>>
  /\ drag = NoDrag
  /\ pending = {}
  /\ sent = <<>>

CreateItem ==
  /\ last = Idle
  /\ NextRowid(DOMAIN todos) <= MaxId
  /\ \E payload \in CreatePayloads :
       \E run \in withRetries(db, Request("createTodo", Null, payload)) :
         Call("createTodo", Null, payload, run)

UpdateItem ==
  /\ last = Idle
  /\ \E id \in TodoIds :
       \E run \in UNION {withRetries(db, Request("updateTodo", id, p)) :
                           p \in Patches} :
         Call("updateTodo", id, NoPayload, run)

BulkReposition ==
  /\ last = Idle
  /\ \E run \in UNION {PatchPositions(db, body) : body \in Batches} :
       Call("updateTodoPositions", Null, NoPayload, run)

DeleteItem ==
  /\ last = Idle
  /\ \E id \in TodoIds :
       \E run \in UNION {withRetries(db, Request("deleteTodo", id, cascade)) :
                           cascade \in BOOLEAN} :
         Call("deleteTodo", id, NoPayload, run)

CreateList ==
  /\ last = Idle
  /\ NextRowid(lists) <= MaxLists
  /\ \E run \in withRetries(db, Request("createList", Null, Null)) :
       Call("createList", Null, NoPayload, run)

DeleteList ==
  /\ last = Idle
  /\ \E lid \in ListIds :
       \E run \in withRetries(db, Request("deleteList", lid, Null)) :
         Call("deleteList", lid, NoPayload, run)

SetCurrentList ==
  /\ last = Idle
  /\ \E lid \in ListIds :
       \E run \in PatchCurrentList(db, lid) :
         Call("setCurrentList", lid, NoPayload, run)

\* sendJson: the reply leaves and the client sends its next request
SendJson ==
  /\ last # Idle
  /\ last' = Idle
  /\ UNCHANGED <<todos, lists, current_list_id, inflight, txn, log, uiTodos, drag, pending, sent>>

Next ==
  \/ CreateItem
  \/ UpdateItem
  \/ BulkReposition
  \/ DeleteItem
  \/ CreateList
  \/ DeleteList
  \/ SetCurrentList
  \/ SendJson

Spec == Init /\ [][Next]_vars

\* ------------------------------------------ a client that edits content
\* Items the content-editing client creates
MaxContentItems == 2

Texts == {"", " ", "a"}

\* Bodies of POST /api/todos with text, completed and isEmpty
ContentPayloads ==
  [listId : 0..MaxLists, parentId : {Null} \cup TodoIds, position : 0..MaxPos,
   isIndented : {0}, text : Texts, completed : {0, 1},
   isEmpty : {Absent, 0, 1}]

\* Bodies of PATCH /api/todos/:id naming any subset of the allowed keys
ContentPatches ==
  [parentId : {Absent, Null} \cup TodoIds,
   position : {Absent} \cup (1..MaxPos),
   isIndented : {Absent, 1},
   text : {NoText, "a"}, completed : {Absent, 0, 1},
   isEmpty : {Absent, 0}]

\* A request and the sending of its reply, in one step
Served(run) ==
  /\ todos' = run.s.todos
  /\ lists' = run.s.lists
  /\ current_list_id' = run.s.cur
  /\ UNCHANGED <<last, inflight, txn, log, uiTodos, drag, pending, sent>>

CreateContentItem ==
  /\ last = Idle
  /\ NextRowid(DOMAIN todos) <= MaxContentItems
  /\ \E payload \in ContentPayloads :
       \E run \in withRetries(db, Request("createTodo", Null, payload)) :
         Served(run)

UpdateContentItem ==
  /\ last = Idle
  /\ \E id \in TodoIds :
       \E run \in UNION {withRetries(db, Request("updateTodo", id, p)) :
                           p \in ContentPatches} :
         Served(run)

NextContent == CreateContentItem \/ UpdateContentItem

SpecContent == Init /\ [][NextContent]_vars

\* ------------------------------------------- the walks, step by step
\* Items of the stores the walks are counted on
MaxWalkItems == 4

WalkIds == 1..MaxWalkItems

\* The rows the ancestor walk of updateTodo holds in cur, counted up to fuel:
\* the new parent, then each row fetched by cur.parent_id
RECURSIVE AncestorWalkVisits(_, _, _, _)
AncestorWalkVisits(t, cur, tid, fuel) ==
  IF fuel = 0 \/ cur \notin DOMAIN t THEN 0
  ELSE IF t[cur].parentId = Null \/ t[cur].parentId = tid THEN 1
  ELSE 1 + AncestorWalkVisits(t, t[cur].parentId, tid, fuel - 1)

\* The non-null values cur takes in the cycle check of updateTodoPositions,
\* counted up to fuel
RECURSIVE ParentWalkVisits(_, _, _, _, _)
ParentWalkVisits(t, rows, seen, cur, fuel) ==
  IF fuel = 0 \/ cur = Null THEN 0
  ELSE IF cur \in seen THEN 1
  ELSE 1 + ParentWalkVisits(t, rows, seen \cup {cur}, getParent(t, rows, cur),
                            fuel - 1)

\* The rows the recursive CTE of deleteTodo yields, the seed included,
\* counted for fuel levels
RECURSIVE cteVisits(_, _, _)
cteVisits(t, frontier, fuel) ==
  LET kids == {i \in DOMAIN t : t[i].parentId \in frontier}
  IN  IF fuel = 0 THEN 0
      ELSE Cardinality(frontier)
           + (IF kids = {} THEN 0 ELSE cteVisits(t, kids, fuel - 1))

\* The entries of proposed, by their place in insertion order, whose cycle
\* check the second loop of updateTodoPositions reaches
ParentWalksRun(t, rows) ==
  IF rows[1].id \notin DOMAIN t THEN {}
  ELSE
    LET listId == t[rows[1].id].listId
        keys == ProposedKeys(rows)
    IN  IF BuildProposedError(t, listId, rows) # "" THEN {}
        ELSE {k \in 1..Len(keys) :
                LET pid == ProposedValue(rows, keys[k]).parentId
                IN  /\ pid # Null
                    /\ pid \in DOMAIN t
                    /\ t[pid].listId = listId
                    /\ ValidateProposedError(t, listId, rows,
                                             SubSeq(keys, 1, k - 1)) = ""}

WalkPayloads ==
  [listId : 0..MaxLists, parentId : {Null} \cup WalkIds, position : {0},
   isIndented : {0}, text : {""}, completed : {0}, isEmpty : {Absent}]

WalkPatches == {[NoPatch EXCEPT !.parentId = pid] : pid \in {Null} \cup WalkIds}

\* Batches whose entries carry their place as position
WalkBatches ==
  {<<[id |-> i, position |-> 1, parentId |-> p]>> :
     i \in WalkIds, p \in {Null} \cup WalkIds}
  \cup {<<[id |-> i, position |-> 1, parentId |-> p],
          [id |-> j, position |-> 2, parentId |-> q]>> :
          i \in WalkIds, p \in {Null} \cup WalkIds,
          j \in WalkIds, q \in {Null} \cup WalkIds}

CreateWalkList ==
  /\ last = Idle
  /\ NextRowid(lists) <= MaxLists
  /\ \E run \in withRetries(db, Request("createList", Null, Null)) : Served(run)

CreateWalkItem ==
  /\ last = Idle
  /\ NextRowid(DOMAIN todos) <= MaxWalkItems
  /\ \E payload \in WalkPayloads :
       \E run \in withRetries(db, Request("createTodo", Null, payload)) :
         Served(run)

UpdateWalkItem ==
  /\ last = Idle
  /\ \E id \in WalkIds, p \in WalkPatches :
       \E run \in withRetries(db, Request("updateTodo", id, p)) : Served(run)

NextWalk == CreateWalkList \/ CreateWalkItem \/ UpdateWalkItem

SpecWalk == Init /\ [][NextWalk]_vars

\* ------------------------------------- several requests being handled
\* Bodies of the requests the concurrent clients send
ClientPayloads ==
  {p \in CreatePayloads : /\ p.listId = 0 /\ p.parentId \in {Null, 1}
                          /\ p.position = 0 /\ p.isIndented = 0}

ClientPatches ==
  {p \in Patches : /\ p.parentId \in {Absent, Null, 1}
                   /\ p.position \in {Absent, MaxPos}
                   /\ p.isIndented = Absent
                   /\ p # NoPatch}

ClientBatches ==
  {body \in Batches :
     /\ PositionsBodyError(body) = ""
     /\ Len(body) = MaxBatch
     /\ \A k \in DOMAIN body : body[k].id <= 2 /\ body[k].parentId \in {Null, 1}}

\* The rows listTodosForList returns, by id: rows of equal position come in
\* an order ORDER BY position leaves open
listTodosForList(t, listId) == [j \in {i \in DOMAIN t : t[i].listId = listId} |-> t[j]]

\* Faulty variant of CanRun: a handler runs while a transaction is open
CanRunInsideTxn == TRUE

\* A handler's callback runs only when no other one is running: the function
\* d.transaction wraps is synchronous, it returns before any other callback
CanRun == txn.owner = 0

Writers == {c \in Clients : inflight[c].pc # "none" /\ inflight[c].op # "listTodos"}

Accept(c, q) ==
  /\ inflight' = [inflight EXCEPT ![c] = q]
  /\ UNCHANGED <<todos, lists, current_list_id, last, txn, log, uiTodos, drag, pending, sent>>

\* A request arrives and its handler waits for the body and the import
Arrive(c) ==
  /\ CanRun
  /\ inflight[c].pc = "none"
  /\ \/ Accept(c, [NoRequest EXCEPT !.pc = "ready", !.op = "listTodos", !.id = 1])
     \/ /\ Len(log) + Cardinality(Writers) < MaxLog
        /\ \/ \E payload \in ClientPayloads :
                Accept(c, [NoRequest EXCEPT !.pc = "ready", !.op = "createTodo",
                                            !.payload = payload])
           \/ \E id \in 1..2, patch \in ClientPatches :
                Accept(c, [NoRequest EXCEPT !.pc = "ready", !.op = "updateTodo",
                                            !.id = id, !.patch = patch])
           \/ \E body \in ClientBatches :
                Accept(c, [NoRequest EXCEPT !.pc = "ready",
                                            !.op = "updateTodoPositions",
                                            !.body = body])
           \/ \E id \in 1..2, cascade \in BOOLEAN :
                Accept(c, [NoRequest EXCEPT !.pc = "ready", !.op = "deleteTodo",
                                            !.id = id, !.cascade = cascade])

\* fn() of withRetries: the engine function begins its transaction; o is
\* the way the call is going to end
Invoke(c) ==
  /\ CanRun
  /\ inflight[c].pc = "ready"
  /\ inflight[c].op # "listTodos"
  /\ \E o \in Attempt(db, Engine(db, AsRequest(inflight[c]))) :
       txn' = Txn(c, db, o, 0)
  /\ UNCHANGED <<todos, lists, current_list_id, last, inflight, log, uiTodos, drag, pending, sent>>

\* One write statement of the open transaction
Write ==
  /\ txn.owner # 0
  /\ txn.k < Len(txn.o.stages)
  /\ todos' = txn.o.stages[txn.k + 1].todos
  /\ lists' = txn.o.stages[txn.k + 1].lists
  /\ current_list_id' = txn.o.stages[txn.k + 1].cur
  /\ txn' = [txn EXCEPT !.k = txn.k + 1]
  /\ UNCHANGED <<last, inflight, log, uiTodos, drag, pending, sent>>

\* The engine function returns and d.transaction commits; the handler sends
\* its reply
Commit ==
  /\ txn.owner # 0
  /\ txn.k = Len(txn.o.stages)
  /\ txn.o.ok
  /\ log' = Append(log, inflight[txn.owner])
  /\ inflight' = [inflight EXCEPT ![txn.owner] = NoRequest]
  /\ txn' = NoTxn
  /\ UNCHANGED <<todos, lists, current_list_id, last, uiTodos, drag, pending, sent>>

\* The engine function throws and d.transaction rolls back; the catch of
\* withRetries sleeps, or the handler sends the error
Rollback ==
  /\ txn.owner # 0
  /\ txn.k = Len(txn.o.stages)
  /\ ~txn.o.ok
  /\ todos' = txn.snapshot.todos
  /\ lists' = txn.snapshot.lists
  /\ current_list_id' = txn.snapshot.cur
  /\ LET q == inflight[txn.owner]
     IN  inflight' =
           [inflight EXCEPT ![txn.owner] =
              IF ShouldRetry(classifyDbError(txn.o.err), q.i)
              THEN [q EXCEPT !.pc = "sleeping", !.i = q.i + 1]
              ELSE NoRequest]
  /\ txn' = NoTxn
  /\ UNCHANGED <<last, log, uiTodos, drag, pending, sent>>

\* The sleep of withRetries ends
Wake(c) ==
  /\ CanRun
  /\ inflight[c].pc = "sleeping"
  /\ inflight' = [inflight EXCEPT ![c].pc = "ready"]
  /\ UNCHANGED <<todos, lists, current_list_id, last, txn, log, uiTodos, drag, pending, sent>>

\* GET /api/todos?list_id=: the rows are read
GetTodos(c) ==
  /\ CanRun
  /\ inflight[c].pc = "ready"
  /\ inflight[c].op = "listTodos"
  /\ inflight' = [inflight EXCEPT ![c].pc = "replying",
                                  ![c].seen = listTodosForList(todos, inflight[c].id)]
  /\ UNCHANGED <<todos, lists, current_list_id, last, txn, log, uiTodos, drag, pending, sent>>

\* The reply of a GET leaves
SendRows(c) ==
  /\ CanRun
  /\ inflight[c].pc = "replying"
  /\ inflight' = [inflight EXCEPT ![c] = NoRequest]
  /\ UNCHANGED <<todos, lists, current_list_id, last, txn, log, uiTodos, drag, pending, sent>>

NextConcurrent ==
  \/ \E c \in Clients : Arrive(c)
  \/ \E c \in Clients : Invoke(c)
  \/ Write
  \/ Commit
  \/ Rollback
  \/ \E c \in Clients : Wake(c)
  \/ \E c \in Clients : GetTodos(c)
  \/ \E c \in Clients : SendRows(c)

SpecConcurrent == Init /\ [][NextConcurrent]_vars

\* ------------------------------------------------- App: drag and drop
\* Items of the list App holds in its state todos
UiItem(id, isIndented, parentId, position) ==
  [id |-> id, isIndented |-> isIndented, parentId |-> parentId,
   position |-> position]

\* The lists getAllTodos can hand to setTodos: rows in display order, each
\* with is_indented mirroring parent_id, the parent any other row
UiLists ==
  UNION {{[k \in 1..n |-> UiItem(k, f[k] # Null, f[k], k)] :
            f \in {g \in [1..n -> {Null} \cup (1..n)] : \A k \in 1..n : g[k] # k}} :
         n \in 0..MaxUiItems}

RemoveAt(seq, i) == SubSeq(seq, 1, i - 1) \o SubSeq(seq, i + 1, Len(seq))

InsertAt(seq, i, x) == SubSeq(seq, 1, i - 1) \o <<x>> \o SubSeq(seq, i, Len(seq))

Unindented(t) == [t EXCEPT !.isIndented = FALSE, !.parentId = Null]

\* todos.map((todo, index) => ({ ...todo, position: index + 1 }))
NumberPositions(list) ==
  [k \in 1..Len(list) |-> [list[k] EXCEPT !.position = k]]

\* The splice of the vertical drop: the dragged item leaves index d and
\* enters at insertAt, unindented when that is the top
MoveItem(list, d, t) ==
  LET rest == RemoveAt(list, d)
      at == (t - 1) - (IF t > d THEN 1 ELSE 0)
      insertAt == IF at < 0 THEN 0 ELSE IF at > Len(rest) THEN Len(rest) ELSE at
      movedItem == IF insertAt = 0 THEN Unindented(list[d]) ELSE list[d]
  IN  InsertAt(rest, insertAt + 1, movedItem)

\* The index of the nearest item before index i that is not indented, 0
\* when there is none
NearestRoot(list, i) ==
  LET cands == {j \in 1..(i - 1) : ~list[j].isIndented}
  IN  IF cands = {} THEN 0 ELSE SetMax(cands)

\* Faulty variant of FixRelationships: an indented item below the top keeps
\* the parent it has
FixRelationshipsTopOnly(list) ==
  [k \in 1..Len(list) |->
     IF list[k].isIndented /\ k = 1 THEN Unindented(list[k]) ELSE list[k]]

\* Post-process of the drop: every indented item is attached to the nearest
\* item above it that the list being mapped shows as not indented, and
\* unindented when there is none
FixRelationships(list) ==
  [k \in 1..Len(list) |->
     IF ~list[k].isIndented THEN list[k]
     ELSE IF k = 1 \/ NearestRoot(list, k) = 0 THEN Unindented(list[k])
     ELSE [list[k] EXCEPT !.parentId = list[NearestRoot(list, k)].id]]

\* The list a vertical drop stores and persists
VerticalDrop(list, d, t) == NumberPositions(FixRelationships(MoveItem(list, d, t)))

\* src/src/App.jsx: the moved item is checked against the item before it,
\* and so is every indented item of the post-process
MoveItemByPrevious(list, d, t) ==
  LET rest == RemoveAt(list, d)
      at == (t - 1) - (IF t > d THEN 1 ELSE 0)
      insertAt == IF at < 0 THEN 0 ELSE IF at > Len(rest) THEN Len(rest) ELSE at
      moved == list[d]
      movedItem == IF insertAt = 0 THEN Unindented(moved)
                   ELSE IF ~moved.isIndented THEN moved
                   ELSE IF rest[insertAt].isIndented THEN Unindented(moved)
                   ELSE [moved EXCEPT !.parentId = rest[insertAt].id]
  IN  InsertAt(rest, insertAt + 1, movedItem)

FixRelationshipsByPrevious(list) ==
  [k \in 1..Len(list) |->
     IF ~list[k].isIndented THEN list[k]
     ELSE IF k = 1 THEN Unindented(list[k])
     ELSE IF list[k - 1].isIndented THEN Unindented(list[k])
     ELSE [list[k] EXCEPT !.parentId = list[k - 1].id]]

VerticalDropByPrevious(list, d, t) ==
  NumberPositions(FixRelationshipsByPrevious(MoveItemByPrevious(list, d, t)))

\* Pixels of horizontal movement past which a drop changes the indentation
IndentThreshold == 30

\* The clamped horizontal offsets a drag can end with
DragOffsets == {0 - 60, 0 - 30, 0, 30, 60}

\* The horizontal drop: whether the indentation is committed, and the list
\* that is then stored and persisted
IndentDrop(list, d, offsetX) ==
  LET wasIndented == list[d].isIndented
      wanted == IF wasIndented THEN offsetX > 0 - IndentThreshold
                ELSE offsetX > IndentThreshold
      willBeIndented == wanted /\ d # 1
      root == NearestRoot(list, d)
      indented == willBeIndented /\ root # 0
  IN  [changed |-> willBeIndented # wasIndented,
       list |-> NumberPositions(
                  [k \in 1..Len(list) |->
                     IF k = d
                     THEN [list[k] EXCEPT !.isIndented = indented,
                                          !.parentId = IF indented THEN list[root].id
                                                       ELSE Null]
                     ELSE list[k]])]

\* src/src/App.jsx, horizontal drop: an item indented below the top takes the
\* item before it as parent
IndentDropByPrevious(list, d, offsetX) ==
  LET wasIndented == list[d].isIndented
      shouldBeIndented == IF wasIndented THEN offsetX > 0 - IndentThreshold
                          ELSE offsetX > IndentThreshold
      changed == shouldBeIndented # wasIndented /\ (shouldBeIndented => d > 1)
  IN  [changed |-> changed,
       list |-> NumberPositions(
                  [k \in 1..Len(list) |->
                     IF k = d /\ changed
                     THEN [list[k] EXCEPT !.isIndented = shouldBeIndented,
                                          !.parentId = IF shouldBeIndented
                                                       THEN list[d - 1].id
                                                       ELSE Null]
                     ELSE list[k]])]

\* A callback the browser holds for a drop: kind is "raf", "transitionend"
\* or "timer" (horizontal drop, session = sessionAtStart), "flip" or
\* "cleanup" (vertical drop, session = currentDropSession); dragId is the
\* drag the drop ended
Callback(kind, session, dragId, payload, persist) ==
  [kind |-> kind, session |-> session, dragId |-> dragId,
   payload |-> payload, persist |-> persist]

\* draggedIndexRef, targetIndexRef, dragDirectionRef, dragOffsetXRef reset
ResetRefs(d) ==
  [d EXCEPT !.draggedIndex = 0, !.targetIndex = 0, !.dragDirection = "none",
            !.dragOffsetX = 0]

\* clearTimeout(cleanupTimerRef.current)
ClearCleanupTimer(cbs, d) ==
  {cb \in cbs : ~(cb.kind = "cleanup" /\ cb.session = d.cleanupTimer)}

\* db.updateTodoPositions(list) called for the drop of drag dragId
Persist(dragId, list) == Append(sent, [dragId |-> dragId, payload |-> list])

\* handleDragStart on the item at index i
DragStart(i) ==
  /\ ~drag.isDragging
  /\ drag.dragSessionId < MaxDrags
  /\ i \in 1..Len(uiTodos)
  /\ drag' = [drag EXCEPT !.dragSessionId = drag.dragSessionId + 1,
                          !.dropSessionId = drag.dropSessionId + 1,
                          !.cleanupTimer = 0,
                          !.isDragging = TRUE,
                          !.draggedIndex = i,
                          !.dragDirection = "none",
                          !.dragOffsetX = 0]
  /\ pending' = ClearCleanupTimer(pending, drag)
  /\ UNCHANGED <<uiTodos, sent, todos, lists, current_list_id, last, inflight, txn, log>>

\* handleMouseMove: the direction is fixed once the pointer has moved far
\* enough; a horizontal drag tracks the offset, any other one the target
MouseMove ==
  /\ drag.isDragging
  /\ drag.draggedIndex # 0
  /\ \E direction \in IF drag.dragDirection = "none"
                       THEN {"none", "vertical", "horizontal"}
                       ELSE {drag.dragDirection} :
       IF direction = "horizontal"
       THEN \E x \in DragOffsets :
              drag' = [drag EXCEPT !.dragDirection = direction, !.dragOffsetX = x]
       ELSE \E t \in (1..(Len(uiTodos) + 1)) \ {drag.draggedIndex} :
              drag' = [drag EXCEPT !.dragDirection = direction, !.targetIndex = t]
  /\ UNCHANGED <<uiTodos, pending, sent, todos, lists, current_list_id, last, inflight, txn, log>>

\* handleMouseUp
MouseUp ==
  /\ drag.isDragging
  /\ IF drag.dragDirection = "horizontal"
     THEN LET drop == IndentDrop(uiTodos, drag.draggedIndex, drag.dragOffsetX)
          IN  /\ drag' = [drag EXCEPT !.isDragging = FALSE]
              /\ uiTodos' = IF drop.changed THEN drop.list ELSE uiTodos
              /\ pending' = pending \cup
                    {Callback("raf", drag.dragSessionId, drag.dragSessionId,
                              IF drop.changed THEN drop.list ELSE <<>>,
                              drop.changed)}
     ELSE IF /\ drag.dragDirection = "vertical"
             /\ drag.targetIndex # 0
             /\ drag.targetIndex # drag.draggedIndex
     THEN LET list == VerticalDrop(uiTodos, drag.draggedIndex, drag.targetIndex)
          IN  /\ drag' = [drag EXCEPT !.isDragging = FALSE,
                                      !.dropSessionId = drag.dropSessionId + 1]
              /\ uiTodos' = list
              /\ pending' = ClearCleanupTimer(pending, drag) \cup
                    {Callback("flip", drag.dropSessionId + 1, drag.dragSessionId,
                              list, TRUE)}
     ELSE /\ drag' = [ResetRefs(drag) EXCEPT !.isDragging = FALSE]
          /\ UNCHANGED <<uiTodos, pending>>
  /\ UNCHANGED <<sent, todos, lists, current_list_id, last, inflight, txn, log>>

\* handleMouseUp of src/src/App.jsx: the drop is stored and persisted at once
MouseUpImmediate ==
  /\ drag.isDragging
  /\ LET vertical == /\ drag.dragDirection = "vertical"
                      /\ drag.targetIndex # 0
                      /\ drag.targetIndex # drag.draggedIndex
         drop == IndentDropByPrevious(uiTodos, drag.draggedIndex, drag.dragOffsetX)
         list == IF vertical
                 THEN VerticalDropByPrevious(uiTodos, drag.draggedIndex, drag.targetIndex)
                 ELSE drop.list
         changed == vertical \/ (drag.dragDirection = "horizontal" /\ drop.changed)
     IN  /\ uiTodos' = IF changed THEN list ELSE uiTodos
         /\ sent' = IF changed THEN Persist(drag.dragSessionId, list) ELSE sent
  /\ drag' = [ResetRefs(drag) EXCEPT !.isDragging = FALSE]
  /\ UNCHANGED <<pending, todos, lists, current_list_id, last, inflight, txn, log>>

\* The animation frame after a horizontal drop: finalize is registered as
\* transitionend listener and as fallback timer
Raf(cb) ==
  /\ cb.kind = "raf"
  /\ pending' = (pending \ {cb}) \cup {[cb EXCEPT !.kind = "transitionend"],
                                        [cb EXCEPT !.kind = "timer"]}
  /\ UNCHANGED <<uiTodos, drag, sent, todos, lists, current_list_id, last, inflight, txn, log>>

\* The guard of finalize: the callback is not of an earlier drag session
FinalizeRuns(cb) == cb.session = drag.dragSessionId

\* finalize of a horizontal drop
Finalize(cb) ==
  /\ pending' = IF FinalizeRuns(cb)
                THEN pending \ {cb, [cb EXCEPT !.kind = "transitionend"]}
                ELSE pending \ {cb}
  /\ drag' = IF FinalizeRuns(cb) THEN ResetRefs(drag) ELSE drag
  /\ sent' = IF FinalizeRuns(cb) /\ cb.persist THEN Persist(cb.dragId, cb.payload)
             ELSE sent
  /\ UNCHANGED <<uiTodos, todos, lists, current_list_id, last, inflight, txn, log>>

\* The glide of the dropped element ends
TransitionEnd(cb) == cb.kind = "transitionend" /\ Finalize(cb)

\* The fallback timer of finalize fires
TimerFires(cb) == cb.kind = "timer" /\ Finalize(cb)

\* The second animation frame after a vertical drop: the cleanup timer is set
Flip(cb) ==
  /\ cb.kind = "flip"
  /\ pending' = (pending \ {cb}) \cup {[cb EXCEPT !.kind = "cleanup"]}
  /\ drag' = [drag EXCEPT !.cleanupTimer = cb.session]
  /\ UNCHANGED <<uiTodos, sent, todos, lists, current_list_id, last, inflight, txn, log>>

\* The cleanup timer of a vertical drop fires
Cleanup(cb) ==
  /\ cb.kind = "cleanup"
  /\ pending' = pending \ {cb}
  /\ drag' = IF cb.session = drag.dropSessionId THEN ResetRefs(drag) ELSE drag
  /\ sent' = IF cb.session = drag.dropSessionId THEN Persist(cb.dragId, cb.payload)
             ELSE sent
  /\ UNCHANGED <<uiTodos, todos, lists, current_list_id, last, inflight, txn, log>>

\* App after getAllTodos has filled its list
InitUi ==
  /\ InitServer
  /\ uiTodos \in UiLists
  /\ drag = NoDrag
  /\ pending = {}
  /\ sent = <<>>

NextUi ==
  \/ \E i \in 1..MaxUiItems : DragStart(i)
  \/ MouseMove
  \/ MouseUp
  \/ MouseUpImmediate
  \/ \E cb \in pending : Raf(cb)
  \/ \E cb \in pending : TransitionEnd(cb)
  \/ \E cb \in pending : TimerFires(cb)
  \/ \E cb \in pending : Flip(cb)
  \/ \E cb \in pending : Cleanup(cb)

SpecUi == InitUi /\ [][NextUi]_vars

\* ============================================================ properties
ItemsOf(t, l) == {i \in DOMAIN t : t[i].listId = l}

\* Positions of list l are exactly 1..N
Contiguous(t, l) ==
  {t[i].position : i \in ItemsOf(t, l)} = 1..Cardinality(ItemsOf(t, l))

\* Following parentId from i for at most n steps ends at null
RECURSIVE ReachesNull(_, _, _)
ReachesNull(t, i, n) ==
  IF i = Null \/ i \notin DOMAIN t THEN TRUE
  ELSE IF n = 0 THEN FALSE
  ELSE ReachesNull(t, t[i].parentId, n - 1)

Acyclic(t) == \A i \in DOMAIN t : ReachesNull(t, i, Cardinality(DOMAIN t))

\* a is a proper ancestor of j, found by walking up from j for at most n steps
RECURSIVE IsAncestor(_, _, _, _)
IsAncestor(t, a, j, n) ==
  IF n = 0 \/ j \notin DOMAIN t THEN FALSE
  ELSE IF t[j].parentId = Null THEN FALSE
  ELSE t[j].parentId = a \/ IsAncestor(t, a, t[j].parentId, n - 1)

Descendants(t, a) == {j \in DOMAIN t : IsAncestor(t, a, j, Cardinality(DOMAIN t))}

\* Items i and j that stay keep the order their positions had
OrderKept(t, u, l) ==
  \A i, j \in ItemsOf(u, l) :
    t[i].position < t[j].position => u[i].position < u[j].position

\* C1: in every list the positions of the items are exactly {1,...,N}
C1_PositionsAreOneToN == \A l \in ListIds : Contiguous(todos, l)

\* C2: no item has position 1 while its parentId is non-null
C2_FirstItemNotIndented ==
  \A i \in DOMAIN todos : todos[i].position = 1 => todos[i].parentId = Null

\* C3: the parent relation is acyclic: following parentId from any item
\* reaches null without returning to the item
C3_ParentGraphAcyclic == Acyclic(todos)

C3_Witness ==
  /\ last.op \in {"updateTodo", "updateTodoPositions"}
  /\ last.ok
  /\ \E i \in DOMAIN todos :
       /\ todos[i].parentId # Null
       /\ todos[todos[i].parentId].parentId # Null

\* C4: every parentId is null or the id of another item that exists and is
\* in the same list
C4_ParentInSameList ==
  \A i \in DOMAIN todos :
    \/ todos[i].parentId = Null
    \/ /\ todos[i].parentId \in DOMAIN todos
       /\ todos[i].parentId # i
       /\ todos[todos[i].parentId].listId = todos[i].listId

C4_Witness ==
  /\ last.op \in {"deleteTodo", "deleteList"}
  /\ last.ok
  /\ \E i \in DOMAIN todos : todos[i].parentId # Null

\* C5: for every item isIndented is true exactly when parentId is non-null
C5_IndentMirrorsParent ==
  \A i \in DOMAIN todos : todos[i].isIndented <=> (todos[i].parentId # Null)

\* an update that gave an item a parent, and a lifted item beside it
C5_Witness ==
  /\ last.op = "updateTodo"
  /\ last.ok
  /\ todos[last.id].isIndented
  /\ \E i \in DOMAIN todos : ~todos[i].isIndented /\ todos[i].position > 1

\* C6: a call that ends in an error leaves items, lists and settings as they
\* were before the call
C6_ErrorLeavesStoreUnchanged ==
  [][~last'.ok =>
       /\ todos' = todos
       /\ lists' = lists
       /\ current_list_id' = current_list_id]_vars

\* the store failed after the call had made some of its writes
C6_Witness ==
  /\ ~last.ok
  /\ last.err = "SQLITE_IOERR"
  /\ last.op \in {"deleteTodo", "updateTodoPositions"}

\* C7: no bulk reposition succeeds when the item that ends at position 1 of
\* the list has a non-null parentId (such a batch is rejected as a whole)
C7_BulkRejectsIndentedTop ==
  (last.op = "updateTodoPositions" /\ last.ok) =>
    \A i \in ItemsOf(todos, last.res.listId) :
      todos[i].position = 1 => todos[i].parentId = Null

\* The parent graph a batch proposes, merged with the stored parents of the
\* items that are not in the batch
MergedParents(t, body) ==
  [i \in DOMAIN t |->
     [parentId |->
        IF \E k \in 1..Len(body) : body[k].id = i
        THEN body[CHOOSE k \in 1..Len(body) : body[k].id = i].parentId
        ELSE t[i].parentId]]

UniqueIds(body) ==
  \A k, m \in 1..Len(body) : k # m => body[k].id # body[m].id

\* Valid apart from cycles: ids and positions unique, every item exists and is
\* in one list, every parent is another item of that list
OtherwiseValid(t, body) ==
  /\ UniqueIds(body)
  /\ \A k, m \in 1..Len(body) : k # m => body[k].position # body[m].position
  /\ \A k \in 1..Len(body) :
       /\ body[k].id \in DOMAIN t
       /\ t[body[k].id].listId = t[body[1].id].listId
       /\ body[k].parentId # body[k].id
       /\ body[k].parentId # Null =>
            /\ body[k].parentId \in DOMAIN t
            /\ t[body[k].parentId].listId = t[body[1].id].listId

\* C8: updateTodoPositions rejects, changing nothing, every batch whose merged
\* parent graph has a cycle, and accepts every otherwise valid batch whose
\* merged parent graph has none.  (Every reachable store is met with
\* last = Idle, once its reply has been sent.)
C8_BulkCycleCheck ==
  last = Idle =>
    \A body \in Batches :
      LET r == updateTodoPositions(db, body)
          cyclic == ~Acyclic(MergedParents(todos, body))
      IN  /\ (UniqueIds(body) /\ cyclic) => (~r.ok /\ withTxn(db, r) = db)
          /\ (OtherwiseValid(todos, body) /\ ~cyclic) => r.ok

C8_Witness ==
  /\ last.op = "updateTodoPositions"
  /\ ~last.ok
  /\ last.err = "Parent cycle detected"

\* C9: a cascade delete removes exactly the target and its transitive
\* descendants, reports exactly those ids, and leaves the list with positions
\* 1..N in the previous relative order
C9_CascadeDelete ==
  [][(last'.op = "deleteTodo" /\ last'.ok /\ last'.res.cascaded) =>
       LET gone == {last'.id} \cup Descendants(todos, last'.id)
           l == todos[last'.id].listId
       IN  /\ DOMAIN todos' = (DOMAIN todos) \ gone
           /\ SeqRange(last'.res.deletedIds) = gone
           /\ Len(last'.res.deletedIds) = Cardinality(gone)
           /\ Contiguous(todos', l)
           /\ OrderKept(todos, todos', l)]_vars

\* a cascade delete that took a child and a grandchild with the target
C9_Witness ==
  /\ last.op = "deleteTodo"
  /\ last.ok
  /\ last.res.cascaded
  /\ Len(last.res.deletedIds) = 3

\* C10: a delete without cascade removes only the target; its descendants
\* stay with parentId null and isIndented false and are reported as lifted;
\* the list is left with positions 1..N in the previous relative order
C10_LiftDelete ==
  [][(last'.op = "deleteTodo" /\ last'.ok /\ ~last'.res.cascaded) =>
       LET desc == Descendants(todos, last'.id)
           l == todos[last'.id].listId
       IN  /\ DOMAIN todos' = (DOMAIN todos) \ {last'.id}
           /\ \A d \in desc : todos'[d].parentId = Null /\ ~todos'[d].isIndented
           /\ \A i \in DOMAIN todos' :
                i \notin desc => todos'[i].parentId = todos[i].parentId
           /\ SeqRange(last'.res.liftedIds) = desc
           /\ Len(last'.res.liftedIds) = Cardinality(desc)
           /\ last'.res.deletedIds = <<last'.id>>
           /\ Contiguous(todos', l)
           /\ OrderKept(todos, todos', l)]_vars

\* A(1), B(2, parent A), C(3): A deleted without cascade leaves B at 1 with no
\* parent and C at 2
C10_Witness ==
  /\ last.op = "deleteTodo"
  /\ last.ok
  /\ ~last.res.cascaded
  /\ last.id = 1
  /\ last.res.liftedIds = <<2>>
  /\ DOMAIN todos = {2, 3}
  /\ todos[2].position = 1 /\ todos[2].parentId = Null /\ ~todos[2].isIndented
  /\ todos[3].position = 2 /\ todos[3].parentId = Null

\* C11: updateItem is rejected whenever the item would end at position 1 with a
\* non-null parentId, whatever the shape of the patch: after an update that
\* succeeded, the updated item is not at position 1 with a parent
C11_UpdateRejectsIndentedTop ==
  (last.op = "updateTodo" /\ last.ok) =>
    ~(todos[last.id].position = 1 /\ todos[last.id].parentId # Null)

\* C12: updateItem(id, {parentId: p}) is rejected with the cycle error and
\* changes nothing whenever id is an ancestor of p, at any depth
C12_CycleRejected ==
  last = Idle =>
    \A id \in DOMAIN todos, p \in DOMAIN todos :
      IsAncestor(todos, id, p, MaxId) =>
        \A patch \in {q \in Patches : q.parentId = p} :
          LET r == updateTodo(db, id, patch)
          IN  /\ ~r.ok
              /\ r.err = "Cannot create cyclic parent relationship"
              /\ withTxn(db, r) = db

\* B was rejected as a child of one of its descendants: some item A has B as
\* its parent and the update of B ended with the cycle error
C12_Witness ==
  /\ last.op = "updateTodo"
  /\ last.err = "Cannot create cyclic parent relationship"
  /\ \E a \in DOMAIN todos : todos[a].parentId = last.id

\* C13: updateItem(id, {parentId: id}) fails with the self-parent error and
\* leaves every item unchanged
C13_SelfParentRejected ==
  last = Idle =>
    \A id \in DOMAIN todos :
      \A patch \in {q \in Patches : q.parentId = id} :
        LET r == updateTodo(db, id, patch)
        IN  /\ ~r.ok
            /\ r.err = "Cannot set parent to self"
            /\ withTxn(db, r) = db

C13_Witness ==
  /\ last.op = "updateTodo"
  /\ last.id \in DOMAIN todos
  /\ last.err = "Cannot set parent to self"

\* A patch that names none of the recognized fields
EmptyPatch ==
  [parentId |-> Absent, position |-> Absent, isIndented |-> Absent,
   text |-> NoText, completed |-> Absent, isEmpty |-> Absent]

\* C14: for every existing item in every reachable state, updateItem with a
\* patch naming no recognized field succeeds, returns the item and changes
\* nothing
C14_EmptyPatchIsNoOp ==
  last = Idle =>
    \A id \in DOMAIN todos :
      LET r == updateTodo(db, id, EmptyPatch)
      IN  r.ok /\ r.res.id = id /\ withTxn(db, r) = db

\* C15: deleteList(id) removes the list and all its items and leaves the other
\* items alone; if id was the current list, current_list_id becomes the lowest
\* id among the remaining lists, or null when none remains; otherwise
\* current_list_id is unchanged
C15_DeleteListReassigns ==
  [][(last'.op = "deleteList" /\ last'.ok) =>
       LET lid == last'.id
           kept == {i \in DOMAIN todos : todos[i].listId # lid}
       IN  /\ lists' = lists \ {lid}
           /\ DOMAIN todos' = kept
           /\ \A i \in kept : todos'[i] = todos[i]
           /\ current_list_id' =
                IF current_list_id # lid THEN current_list_id
                ELSE IF lists' = {} THEN Null
                ELSE CHOOSE m \in lists' : \A x \in lists' : m <= x]_vars

\* The structural validation failures of createItem, updateItem and
\* bulkReposition: missing parent, cross-list parent, self-parent, cycle,
\* indent at position 1, mixed lists, duplicate ids or positions
StructuralErrors ==
  {"Parent todo not found", "Parent not found",
   "Parent must be in the same list",
   "Cannot set parent to self", "A todo cannot be its own parent",
   "Cannot create cyclic parent relationship", "Parent cycle detected",
   "Cannot indent the first item in the list",
   "All updates must be within the same list",
   "Duplicate id in payload", "Duplicate position in payload"}

\* The target id of the request names no row
MissingTargetErrors == {"Todo not found", "First todo not found", "List not found"}

\* C16: every structural validation failure is reported with status 400; 404
\* is given only for a missing target id, 409 only for a constraint violation
\* of the store, 503 only for contention, and 500 for anything else
C16_StatusTaxonomy ==
  (last.op # "idle" /\ ~last.ok) =>
    /\ last.err \in StructuralErrors => last.status = 400
    /\ last.status = 404 => last.err \in MissingTargetErrors
    /\ last.status = 409 => last.err = "FOREIGN KEY constraint failed"
    /\ last.status = 503 => last.err = "SQLITE_BUSY"
    /\ last.err \notin StructuralErrors \cup MissingTargetErrors
                       \cup {"FOREIGN KEY constraint failed", "SQLITE_BUSY"}
         => last.status = 500

\* C17: for each request the retry wrapper invokes the engine operation at
\* most 3 times; it invokes it again only after a failure classified 503, with
\* the sleep doubling from one retry to the next; a failure classified as
\* anything else is reported at once, with no further invocation; and when
\* three invocations fail with 503 the client receives 503
C17_RetryDiscipline ==
  last.op # "idle" =>
    LET n == Len(last.tries)
    IN  /\ n <= 3
        /\ \A k \in 1..n : k < n => last.tries[k] = 503
        /\ \A k \in 1..n : last.tries[k] \notin {200, 503} => k = n /\ last.status = last.tries[k]
        /\ n > 0 => Len(last.delays) = n - 1
        /\ \A k \in 2..Len(last.delays) : last.delays[k] = 2 * last.delays[k - 1]
        /\ \A k \in 1..Len(last.delays) : last.delays[k] > 0
        /\ (n = 3 /\ \A k \in 1..3 : last.tries[k] = 503) => ~last.ok /\ last.status = 503

\* three invocations met contention, with two sleeps between them
C17_Witness ==
  /\ last.op = "deleteTodo"
  /\ last.tries = <<503, 503, 503>>
  /\ last.delays = <<50, 100>>
  /\ last.status = 503

\* C18: retrying is safe.  When the first k < 3 invocations fail with 503 and
\* the next one succeeds, the store and the result are those of one
\* successful call made on the store as it was; so a retried createItem
\* inserts exactly one item and a retried deleteItem reports the same
\* deletedIds
RetriedRunsMatchOneCall(s, req) ==
  LET r == Engine(s, req)
  IN  \A run \in withRetries(s, req) :
        run.ok => /\ r.ok
                  /\ run.s = Written(s, r)
                  /\ run.res = r.res
                  /\ \A k \in 1..(Len(run.tries) - 1) : run.tries[k] = 503

C18_RetryIsSafe ==
  last = Idle =>
    /\ \A payload \in CreatePayloads :
         RetriedRunsMatchOneCall(db, Request("createTodo", Null, payload))
    /\ \A id \in TodoIds, p \in Patches :
         RetriedRunsMatchOneCall(db, Request("updateTodo", id, p))
    /\ \A id \in TodoIds, cascade \in BOOLEAN :
         RetriedRunsMatchOneCall(db, Request("deleteTodo", id, cascade))
    /\ \A lid \in ListIds :
         RetriedRunsMatchOneCall(db, Request("deleteList", lid, Null))
    /\ RetriedRunsMatchOneCall(db, Request("createList", Null, Null))

\* a deleteItem succeeded at its third invocation and lifted descendants
C18_Witness ==
  /\ last.op = "deleteTodo"
  /\ last.ok
  /\ last.tries = <<503, 503, 200>>
  /\ Len(last.res.liftedIds) > 0

\* The list a createItem request is for: the one it names, else the current
\* list, else list 1
ResolvedListId(payload) ==
  IF payload.listId # 0 THEN payload.listId
  ELSE IF current_list_id # Null THEN current_list_id ELSE 1

\* C19: createItem with a parentId fails and inserts nothing when no item has
\* that id or when that item is in another list than the resolved one;
\* otherwise, unless the position asked for is 1, it succeeds and the new item
\* is stored with that parentId
C19_CreateParentValidated ==
  last = Idle =>
    \A payload \in {q \in CreatePayloads : q.parentId # Null} :
      LET r == createTodo(db, payload)
          after == withTxn(db, r)
      IN  IF \/ payload.parentId \notin DOMAIN todos
             \/ todos[payload.parentId].listId # ResolvedListId(payload)
          THEN ~r.ok /\ after = db
          ELSE payload.position # 1 =>
                 /\ r.ok
                 /\ r.res.id \notin DOMAIN todos
                 /\ DOMAIN after.todos = DOMAIN todos \cup {r.res.id}
                 /\ after.todos[r.res.id].parentId = payload.parentId

\* a parent of another list was refused while the store held items
C19_Witness ==
  /\ last.op = "createTodo"
  /\ last.err = "Parent must be in the same list"
  /\ DOMAIN todos # {}

\* C20: createItem with the position omitted or not positive stores the new
\* item at 1 + the largest position held in its list, at 1 in an empty list
C20_DefaultPosition ==
  last = Idle =>
    \A payload \in {q \in CreatePayloads : q.position = 0} :
      LET r == createTodo(db, payload)
          items == ItemsOf(todos, ResolvedListId(payload))
      IN  r.ok =>
            LET pos == withTxn(db, r).todos[r.res.id].position
            IN  IF items = {} THEN pos = 1
                ELSE /\ \E i \in items : pos = todos[i].position + 1
                     /\ \A i \in items : todos[i].position < pos

\* an item was appended after the largest position a request can ask for
C20_Witness ==
  /\ last.op = "createTodo"
  /\ last.ok
  /\ todos[last.res.id].position = MaxPos + 1

\* The position a createItem request resolves to: the one it gives, else one
\* past the largest position of the resolved list
ResolvedPosition(payload) ==
  LET items == ItemsOf(todos, ResolvedListId(payload))
  IN  IF payload.position # 0 THEN payload.position
      ELSE IF items = {} THEN 1
      ELSE 1 + todos[CHOOSE i \in items :
                        \A j \in items : todos[j].position <= todos[i].position].position

\* C21: createItem is rejected and inserts nothing whenever parentId is set
\* and the resolved position of the new item, given or defaulted, is 1
C21_CreateRejectsIndentedTop ==
  last = Idle =>
    \A payload \in {q \in CreatePayloads : q.parentId # Null} :
      ResolvedPosition(payload) = 1 =>
        LET r == createTodo(db, payload)
        IN  ~r.ok /\ withTxn(db, r) = db

\* a createItem under an existing parent of the same list was refused for
\* asking position 1
C21_Witness ==
  /\ last.op = "createTodo"
  /\ last.err = "Cannot indent the first item in the list"
  /\ DOMAIN todos # {}

\* The rows of a batch, each carrying the isIndented value f gives it
WithIndent(body, f) ==
  [k \in 1..Len(body) |->
     [id |-> body[k].id, position |-> body[k].position,
      parentId |-> body[k].parentId, isIndented |-> f[k]]]

\* The batches the route hands to the engine
AcceptedBatches == {body \in Batches : PositionsBodyError(body) = ""}

\* C22: the isIndented value a caller supplies never influences the store:
\* from the same store, two createItem, updateItem or bulkReposition calls
\* that differ only in the isIndented values supplied make the same writes
\* and return the same result
C22_SuppliedIndentIgnored ==
  last = Idle =>
    /\ \A payload \in {q \in CreatePayloads : q.isIndented = 0} :
         createTodo(db, payload) = createTodo(db, [payload EXCEPT !.isIndented = 1])
    /\ \A id \in TodoIds, p \in {q \in Patches : q.isIndented = 0} :
         updateTodo(db, id, p) = updateTodo(db, id, [p EXCEPT !.isIndented = 1])
    /\ \A body \in AcceptedBatches :
         \A f \in [1..Len(body) -> {0, 1}] :
           updateTodoPositions(db, WithIndent(body, f)) = updateTodoPositions(db, body)
    \* the shallow validation of the route does not read the store
    /\ DOMAIN todos = {} =>
         \A body \in Batches :
           \A f \in [1..Len(body) -> {0, 1}] :
             PositionsBodyError(WithIndent(body, f)) = PositionsBodyError(body)

\* a caller asked for an indented item without a parent and the item stored
\* is not indented
C22_Witness ==
  /\ last.op = "createTodo"
  /\ last.ok
  /\ last.payload.isIndented = 1
  /\ last.payload.parentId = Null
  /\ ~todos[last.res.id].isIndented

\* Some entry of the batch names an item that does not exist or whose list is
\* not the list of the first entry's item, or a parent that does not exist
\* or is in another list
RefersOutsideList(t, body) ==
  \E k \in 1..Len(body) :
    \/ body[k].id \notin DOMAIN t
    \/ body[1].id \notin DOMAIN t
    \/ t[body[k].id].listId # t[body[1].id].listId
    \/ /\ body[k].parentId # Null
       /\ \/ body[k].parentId \notin DOMAIN t
          \/ t[body[k].parentId].listId # t[body[1].id].listId

\* C23: bulkReposition rejects the whole batch and changes no item when an
\* entry's item is in another list than the first entry's item, when an
\* entry's id does not exist, or when an entry's parentId names a missing
\* item or an item of another list
C23_BulkRejectsOutsideList ==
  last = Idle =>
    \A body \in Batches :
      RefersOutsideList(todos, body) =>
        \A run \in PatchPositions(db, body) : ~run.ok /\ run.s = db

\* a batch mixing the items of two lists was refused by the engine
C23_Witness ==
  /\ last.op = "updateTodoPositions"
  /\ last.err = "All updates must be within the same list"

\* Two entries of the batch have the same id or the same position, or an
\* entry names itself as its parent
Contradictory(body) ==
  \/ \E k, m \in 1..Len(body) : k # m /\ body[k].id = body[m].id
  \/ \E k, m \in 1..Len(body) : k # m /\ body[k].position = body[m].position
  \/ \E k \in 1..Len(body) : body[k].parentId = body[k].id

\* C24: a bulk reposition request in which two entries have the same id, or
\* two entries have the same position, or an entry's parentId is its own id,
\* is rejected and no item is changed
C24_BulkRejectsContradictory ==
  last = Idle =>
    \A body \in {b \in Batches : Contradictory(b)} :
      \A run \in PatchPositions(db, body) : ~run.ok /\ run.s = db

\* the route refused a batch that gives one position to two entries
C24_Witness ==
  /\ last.op = "updateTodoPositions"
  /\ last.err = "Duplicate position in payload"
  /\ last.status = 400
  /\ Cardinality(DOMAIN todos) >= 2

\* C25: after every successful bulkReposition, whatever the positions were
\* before and whatever positions the batch proposed, the positions of the
\* affected list are exactly 1..N, each batch item has the proposed parentId,
\* and the result is count = number of entries, listId = list of the first
\* entry's item
C25_BulkCompactsAndReports ==
  last = Idle =>
    \A body \in AcceptedBatches :
      LET r == updateTodoPositions(db, body)
          after == withTxn(db, r).todos
      IN  r.ok =>
            /\ Contiguous(after, todos[body[1].id].listId)
            /\ \A k \in 1..Len(body) : after[body[k].id].parentId = body[k].parentId
            /\ r.res.count = Len(body)
            /\ r.res.listId = todos[body[1].id].listId

\* a batch of two entries succeeded, one of them under a parent
C25_Witness ==
  /\ last.op = "updateTodoPositions"
  /\ last.ok
  /\ last.res.count = 2
  /\ \E i \in ItemsOf(todos, last.res.listId) : todos[i].parentId # Null

\* C26: deleteItem called with an id that does not exist fails with the
\* not-found error, reported as status 404, for both cascade values, and no
\* item is removed, reparented or renumbered
C26_DeleteMissingIs404 ==
  [][(last'.op = "deleteTodo" /\ last'.id \notin DOMAIN todos) =>
       /\ ~last'.ok
       /\ last'.err = "Todo not found"
       /\ last'.status = 404
       /\ todos' = todos]_vars

\* a delete of an id that names no item was answered 404 while items exist
C26_Witness ==
  /\ last.op = "deleteTodo"
  /\ last.status = 404
  /\ DOMAIN todos # {}

\* C27: in every reachable state every item's listId is the id of a list that
\* exists, and a createItem that names, or defaults to, a list that does not
\* exist inserts nothing
C27_ItemsInExistingLists ==
  /\ \A i \in DOMAIN todos : todos[i].listId \in lists
  /\ last = Idle =>
       \A payload \in {q \in CreatePayloads : ResolvedListId(q) \notin lists} :
         LET r == createTodo(db, payload)
         IN  ~r.ok /\ withTxn(db, r) = db

\* a createItem without listId was refused by the foreign key: no list is
\* current and list 1 is gone
C27_Witness ==
  /\ last.op = "createTodo"
  /\ last.payload.listId = 0
  /\ last.err = "FOREIGN KEY constraint failed"

\* C28: createItem called without a listId places the new item in the list
\* current_list_id designates at the time of the call, never in another list
C28_CreateDefaultsToCurrentList ==
  [][(last'.op = "createTodo" /\ last'.ok /\ last'.payload.listId = 0) =>
       /\ last'.res.id \notin DOMAIN todos
       /\ todos'[last'.res.id].listId = current_list_id]_vars

\* C29: updateTodo changes only the targeted item, and of that item only
\* the columns the patch names plus the derived isIndented: text, completed,
\* isEmpty, parentId and position keep their values when the patch lacks
\* them, listId is never changed, no other item and no list is touched
C29_UpdateFrame ==
  \A id \in DOMAIN todos : \A p \in ContentPatches :
    LET r == updateTodo(db, id, p)
        after == withTxn(db, r)
    IN  r.ok =>
          /\ after.lists = lists
          /\ after.cur = current_list_id
          /\ DOMAIN after.todos = DOMAIN todos
          /\ \A j \in DOMAIN todos \ {id} : after.todos[j] = todos[j]
          /\ after.todos[id].listId = todos[id].listId
          /\ p.text = NoText => after.todos[id].text = todos[id].text
          /\ p.completed = Absent =>
                after.todos[id].completed = todos[id].completed
          /\ p.isEmpty = Absent => after.todos[id].isEmpty = todos[id].isEmpty
          /\ p.parentId = Absent =>
                after.todos[id].parentId = todos[id].parentId
          /\ p.position = Absent =>
                after.todos[id].position = todos[id].position

\* An item with text, done and not empty beside another one, its text about
\* to be left alone by a patch that names completed only
C29_Witness ==
  /\ Cardinality(DOMAIN todos) = 2
  /\ todos[1].text = "a" /\ todos[1].completed = 1 /\ todos[1].isEmpty = 0
  /\ todos[2].parentId = 1
  /\ \E p \in ContentPatches :
       /\ p.completed = 0 /\ p.text = NoText /\ p.parentId = Absent
       /\ updateTodo(db, 1, p).ok
       /\ withTxn(db, updateTodo(db, 1, p)).todos[1].completed = 0

\* The store after the first n requests of a log, handled one after the
\* other on a fresh database
RECURSIVE Replay(_, _)
Replay(l, n) ==
  IF n = 0 THEN Store(<<>>, {1}, 1)
  ELSE LET s == Replay(l, n - 1)
       IN  withTxn(s, Engine(s, AsRequest(l[n])))

\* C30: with several requests in flight each engine operation takes effect
\* as one step: the rows a GET /api/todos has read are those of the store
\* after some prefix of the committed operations, never those of a
\* transaction still open or rolled back, and whenever no transaction is
\* open the store is the one the committed operations give one after the
\* other in the order of their commits
C30_OperationsAreIndivisible ==
  /\ txn.owner = 0 => db = Replay(log, Len(log))
  /\ \A c \in Clients :
       inflight[c].pc = "replying" =>
         \E n \in 0..Len(log) :
           inflight[c].seen = listTodosForList(Replay(log, n).todos, inflight[c].id)

\* A GET has read two rows while a delete, one attempt of which was rolled
\* back, sleeps in withRetries
C30_Witness ==
  /\ inflight[1].pc = "replying"
  /\ Cardinality(DOMAIN inflight[1].seen) = 2
  /\ inflight[2].pc = "sleeping"
  /\ inflight[2].op = "deleteTodo"
  /\ Len(log) = 2

\* C31: current_list_id is null or the id of a list that exists, in every
\* reachable state; setCurrentList with the id of a list that does not
\* exist fails and leaves current_list_id, and the rest of the store, as
\* they were
C31_CurrentListNeverDangles ==
  /\ current_list_id = Null \/ current_list_id \in lists
  /\ last = Idle =>
       \A lid \in ListIds \ lists :
         /\ ~setCurrentList(db, lid).ok
         /\ \A run \in PatchCurrentList(db, lid) :
              ~run.ok /\ run.err = "List not found" /\ run.s = db

\* A list was deleted, another one is current, and selecting the deleted
\* one has just failed
C31_Witness ==
  /\ last.op = "setCurrentList"
  /\ ~last.ok
  /\ last.id \notin lists
  /\ current_list_id \in lists
  /\ 1 \notin lists

\* C32: indentation is at most one level deep: no item that has a parent
\* is itself the parent of another item
C32_OneLevelOfNesting ==
  \A i \in DOMAIN todos :
    (todos[i].parentId # Null /\ todos[i].parentId \in DOMAIN todos) =>
      todos[todos[i].parentId].parentId = Null

\* C33: compacting a list gives its items the positions 1..N in the order
\* of (previous position, id), so two items of different previous positions
\* keep their order; no other column and no item of another list changes,
\* and compacting again changes nothing
C33_CompactionRenumbersInOrder ==
  last = Idle =>
    \A l \in ListIds :
      LET u == compactPositionsTx(todos, l)
          items == ItemsOf(todos, l)
      IN  /\ DOMAIN u = DOMAIN todos
          /\ {u[i].position : i \in items} = 1..Cardinality(items)
          /\ \A i, j \in items :
               (\/ todos[i].position < todos[j].position
                \/ todos[i].position = todos[j].position /\ i < j)
                 => u[i].position < u[j].position
          /\ \A i \in items : u[i] = [todos[i] EXCEPT !.position = u[i].position]
          /\ \A i \in DOMAIN todos \ items : u[i] = todos[i]
          /\ compactPositionsTx(u, l) = u

\* List 1 holds two items of one position and a third one after a gap:
\* compacting list 1 renumbers it
C33_Witness ==
  /\ last = Idle
  /\ \E i, j, k \in ItemsOf(todos, 1) :
       /\ i < j
       /\ todos[i].position = todos[j].position
       /\ todos[k].position > todos[i].position + 1
  /\ compactPositionsTx(todos, 1) # todos

\* The visits within which every walk has ended are counted up to
WalkFuel == MaxWalkItems + 1

\* The ancestor walk of updateTodo and the descendant collection of
\* deleteTodo visit at most the N items of the target's list
StoredWalksWithinList ==
  /\ \A tid \in DOMAIN todos : \A pid \in DOMAIN todos \ {tid} :
       todos[pid].listId = todos[tid].listId =>
         AncestorWalkVisits(todos, pid, tid, WalkFuel)
           <= Cardinality(ItemsOf(todos, todos[tid].listId))
  /\ \A tid \in DOMAIN todos :
       cteVisits(todos, {tid}, WalkFuel)
         <= Cardinality(ItemsOf(todos, todos[tid].listId))

\* The visits of the cycle check that updateTodoPositions runs for entry k
\* of proposed
BulkVisits(rows, k) ==
  LET id == ProposedKeys(rows)[k]
  IN  ParentWalkVisits(todos, rows, {id}, ProposedValue(rows, id).parentId,
                       WalkFuel)

C35_BulkKeepsProposedOrder ==
  last = Idle =>
    \A body \in AcceptedBatches :
      LET r == updateTodoPositions(db, body)
          after == withTxn(db, r).todos
          l == todos[body[1].id].listId
          ids == {body[k].id : k \in DOMAIN body}
          rest == ItemsOf(todos, l) \ ids
      IN  r.ok =>
            /\ \A k, m \in DOMAIN body :
                 body[k].position < body[m].position =>
                   after[body[k].id].position < after[body[m].id].position
            /\ (/\ ids = ItemsOf(todos, l)
                /\ {body[k].position : k \in DOMAIN body} = 1..Cardinality(ids))
                 => \A k \in DOMAIN body :
                      after[body[k].id].position = body[k].position
            /\ \A i \in rest :
                 /\ after[i].parentId = todos[i].parentId
                 /\ after[i].isIndented = todos[i].isIndented
            /\ \A i, j \in rest :
                 todos[i].position < todos[j].position =>
                   after[i].position < after[j].position

\* a batch of one entry succeeded in a list of three items
C35_Witness ==
  /\ last.op = "updateTodoPositions"
  /\ last.ok
  /\ last.res.count = 1
  /\ Cardinality(ItemsOf(todos, last.res.listId)) = 3

\* The list a request on items has worked on: the list of the item it
\* names, of the item it has created, or of the first entry of its batch
TargetList(t, u, reply) ==
  CASE reply.op = "createTodo" -> u[reply.res.id].listId
    [] reply.op = "updateTodoPositions" -> reply.res.listId
    [] OTHER -> t[reply.id].listId

\* C36: createTodo, updateTodo, updateTodoPositions and deleteTodo affect
\* one list only: every item of another list than the targeted one keeps
\* all its columns, position included, and lists and settings stay as they
\* were
C36_OtherListsUntouched ==
  [][last'.op \in {"createTodo", "updateTodo", "updateTodoPositions", "deleteTodo"} =>
       /\ lists' = lists
       /\ current_list_id' = current_list_id
       /\ ~last'.ok => todos' = todos
       /\ last'.ok =>
            \A i \in DOMAIN todos :
              todos[i].listId # TargetList(todos, todos', last') =>
                i \in DOMAIN todos' /\ todos'[i] = todos[i]]_vars

\* An item was deleted from one list while the only item of another list
\* stands at position 2
C36_Witness ==
  /\ last.op = "deleteTodo"
  /\ last.ok
  /\ \E i \in DOMAIN todos :
       /\ todos[i].listId # last.res.listId
       /\ todos[i].position = 2
       /\ ItemsOf(todos, todos[i].listId) = {i}

\* C37: createList adds exactly one list, under an id no existing list has,
\* makes it the current list and changes no existing list and no item
C37_CreateListAddsCurrentList ==
  [][(last'.op = "createList" /\ last'.ok) =>
       /\ last'.res.listId \notin lists
       /\ lists' = lists \cup {last'.res.listId}
       /\ current_list_id' = last'.res.listId
       /\ todos' = todos]_vars

\* A second list was created beside a list that has items, and is current
C37_Witness ==
  /\ last.op = "createList"
  /\ last.ok
  /\ current_list_id = 2
  /\ lists = {1, 2}
  /\ ItemsOf(todos, 1) # {}

\* A list as claim C38 wants it sent: positions 1..N in display order, the
\* first item not indented, every indented item below an earlier item that
\* is its parent and is not indented
ValidPayload(list) ==
  /\ \A k \in 1..Len(list) : list[k].position = k
  /\ Len(list) > 0 => ~list[1].isIndented
  /\ \A k \in 1..Len(list) :
       list[k].isIndented =>
         \E j \in 1..(k - 1) : list[j].id = list[k].parentId /\ ~list[j].isIndented

\* The step is a mouse-up that processes a vertical drop
VerticalDropStep ==
  /\ drag.isDragging
  /\ ~drag'.isDragging
  /\ drag.dragDirection = "vertical"
  /\ drag.targetIndex \notin {0, drag.draggedIndex}

\* C38: the list a vertical drop stores, and the list it hands to
\* db.updateTodoPositions (at once, or when its cleanup timer fires), has
\* positions 1..N in display order, a first item that is not indented, and
\* every indented item pointing at an earlier item that is not indented.
C38_VerticalDropPayloadIsOneLevel ==
  [][/\ VerticalDropStep =>
          /\ ValidPayload(uiTodos')
          /\ \/ Len(sent') = Len(sent) + 1 /\ sent'[Len(sent')].payload = uiTodos'
             \/ \E cb \in pending' \ pending :
                   cb.kind = "flip" /\ cb.payload = uiTodos'
      /\ \A cb \in pending \ pending' :
           (cb.kind = "cleanup" /\ Len(sent') = Len(sent) + 1) =>
             /\ sent'[Len(sent')].payload = cb.payload
             /\ ValidPayload(cb.payload)]_vars

\* C38 witness: a vertical drop has put a higher id before a lower one, the
\* list holds an indented item, and that list is the last one persisted
C38_Witness ==
  /\ \E j, k \in 1..Len(uiTodos) : j < k /\ uiTodos[j].id > uiTodos[k].id
  /\ \E k \in 1..Len(uiTodos) : uiTodos[k].isIndented
  /\ sent # <<>>
  /\ sent[Len(sent)].payload = uiTodos

\* C39: no drag has its drop persisted by more than one call of
\* db.updateTodoPositions.
C39_OnePersistPerDrag ==
  \A s \in 1..MaxDrags :
    Cardinality({k \in DOMAIN sent : sent[k].dragId = s}) <= 1

====
